---- MODULE Spec2Model ----
(***************************************************************************)
(* A model of ilex: the tree builder (parse_events), the serializer        *)
(* (get_all_events, items_to_string) and the traversal engine              *)
(* (get_items_at_depth, find_descendants) over quick_xml events.           *)
(*                                                                         *)
(* Byte strings are sequences of numbers 0..255.  An event carries the     *)
(* bytes quick_xml keeps for it: a BytesStart is a name and an attribute   *)
(* list, a BytesEnd a name, every other event one payload.  Text output    *)
(* is kept as the sequence of events handed to the quick_xml Writer, which *)
(* renders each event on its own.                                          *)
(***************************************************************************)
EXTENDS Integers, Sequences, FiniteSets, TLC

\* ------------------------------------------------------------------------
\* Bounds of the explored inputs
\* ------------------------------------------------------------------------
\* longest event stream drawn from the full event alphabet
MaxLen == 3
\* longest event stream drawn from the structural alphabet
MaxCoreLen == 7
\* largest depth argument handed to get_items_at_depth
MaxDepthArg == 4
\* most nodes of a tree that the caller still pushes an item into
MaxNodes == 2
\* most attributes of a parsed start tag, and of a tree set_attribute has
\* written to
MaxAttrs == 2
\* longest attribute value set_attribute is let to write
MaxValueLen == 9

\* ------------------------------------------------------------------------
\* Byte strings
\* ------------------------------------------------------------------------
NameA == <<97>>
NameB == <<98>>
NameC == <<99>>
NameD == <<100>>
NameE == <<101>>
TextT == <<116>>

InRange(b, lo, hi) == lo <= b /\ b <= hi
IsCont(b) == InRange(b, 128, 191)

\* String::from_utf8 accepts exactly the well-formed UTF-8 byte sequences
RECURSIVE IsUtf8From(_, _)
IsUtf8From(u8, i) ==
  IF i > Len(u8) THEN TRUE
  ELSE LET b == u8[i]
           n == Len(u8) - i
           c1 == IF n >= 1 THEN u8[i + 1] ELSE 0
           c2 == IF n >= 2 THEN u8[i + 2] ELSE 0
           c3 == IF n >= 3 THEN u8[i + 3] ELSE 0
       IN IF b <= 127 THEN IsUtf8From(u8, i + 1)
          ELSE IF InRange(b, 194, 223)
            THEN n >= 1 /\ IsCont(c1) /\ IsUtf8From(u8, i + 2)
          ELSE IF InRange(b, 224, 239)
            THEN /\ n >= 2
                 /\ IF b = 224 THEN InRange(c1, 160, 191)
                    ELSE IF b = 237 THEN InRange(c1, 128, 159)
                    ELSE IsCont(c1)
                 /\ IsCont(c2)
                 /\ IsUtf8From(u8, i + 3)
          ELSE IF InRange(b, 240, 244)
            THEN /\ n >= 3
                 /\ IF b = 240 THEN InRange(c1, 144, 191)
                    ELSE IF b = 244 THEN InRange(c1, 128, 143)
                    ELSE IsCont(c1)
                 /\ IsCont(c2)
                 /\ IsCont(c3)
                 /\ IsUtf8From(u8, i + 4)
          ELSE FALSE

\* util.rs u8_to_string: Ok(String) or Err(FromUtf8Error)
u8_to_string(u8) ==
  IF IsUtf8From(u8, 1) THEN [ok |-> TRUE, val |-> u8] ELSE [ok |-> FALSE]

\* util.rs qname_to_string
qname_to_string(qname) == u8_to_string(qname)

\* ------------------------------------------------------------------------
\* Events, items, errors
\* ------------------------------------------------------------------------
LeafKinds == {"Text", "Comment", "CData", "PI", "Decl", "DocType"}

BytesStart(name, attrs) == [name |-> name, attrs |-> attrs]
\* an entry of the attribute list is <<key, value>> as written key="value";
\* a key written without = and value (<a x y="1"/>) has this in the value's
\* place: the reader takes such a tag as it is
NoEq == <<-1>>
Malformed(entry) == entry[2] = NoEq

StartEv(name) == [type |-> "Start", start |-> BytesStart(name, <<>>)]
EmptyEv(name) == [type |-> "Empty", start |-> BytesStart(name, <<>>)]
EndEv(name) == [type |-> "End", name |-> name]
LeafEv(kind, value) == [type |-> kind, value |-> value]
EofEv == [type |-> "Eof"]

\* what the reader hands out for one read_event call
OkEv(e) == [ok |-> TRUE, event |-> e]
ErrEv(err) == [ok |-> FALSE, error |-> err]

\* quick_xml::Error values
MissingEndTag(name) == [type |-> "IllFormed", variant |-> "MissingEndTag", name |-> name]
UnmatchedEndTag(name) == [type |-> "IllFormed", variant |-> "UnmatchedEndTag", name |-> name]
NonDecodable == [type |-> "NonDecodable"]
\* Error::InvalidAttr(AttrError::ExpectedEq)
InvalidAttr == [type |-> "InvalidAttr", variant |-> "ExpectedEq"]
\* errors the reader itself reports for malformed input
SyntaxError == [type |-> "Syntax"]
MismatchedEndTag(expected, found) ==
  [type |-> "IllFormed", variant |-> "MismatchedEndTag", expected |-> expected, found |-> found]

\* Item::Text(Other::Text(bytes)) and the other leaf variants
OtherOf(kind, value) == [kind |-> kind, value |-> value]
LeafItem(kind, other) == [kind |-> kind, other |-> other]
\* Item::Element(Element { element, children, self_closing })
ElementItem(element, children, self_closing) ==
  [kind |-> "Element", element |-> element, children |-> children,
   self_closing |-> self_closing]

\* results of the builder
OkItems(items) == [tag |-> "Ok", items |-> items]
ErrResult(err) == [tag |-> "Err", error |-> err]
PanicResult == [tag |-> "Panic"]

\* ------------------------------------------------------------------------
\* parsing.rs: the token source
\* ------------------------------------------------------------------------
\* EventIterator::next handing out the Eof event before it ends the iteration
RECURSIVE EventIterator_YieldsEof(_, _)
EventIterator_YieldsEof(reader, i) ==
  IF i > Len(reader) THEN <<>>
  ELSE IF ~reader[i].ok THEN <<reader[i]>> \o EventIterator_YieldsEof(reader, i + 1)
  ELSE IF reader[i].event.type = "Eof" THEN <<reader[i]>>
  ELSE <<reader[i]>> \o EventIterator_YieldsEof(reader, i + 1)

\* EventIterator::next: an error and an event are passed on, Eof ends the iteration
RECURSIVE EventIterator(_, _)
EventIterator(reader, i) ==
  IF i > Len(reader) THEN <<>>
  ELSE IF ~reader[i].ok THEN <<reader[i]>> \o EventIterator(reader, i + 1)
  ELSE IF reader[i].event.type = "Eof" THEN <<>>
  ELSE <<reader[i]>> \o EventIterator(reader, i + 1)

read_events(reader) == EventIterator(reader, 1)

\* ------------------------------------------------------------------------
\* parsing.rs: the tree builder
\* ------------------------------------------------------------------------
\* MissingEnd with the name of the open start event lost
MissingEnd_NoName(start) == ErrResult(MissingEndTag(<<>>))

\* the else branch of the scanning loop: the iterator ran out, or yielded an
\* error, before the depth counter reached zero
MissingEnd(start) ==
  LET name == qname_to_string(start.name) IN
  ErrResult(MissingEndTag(IF name.ok THEN name.val ELSE <<>>))

\* UnmatchedEnd reporting the stray end event as a missing end tag
UnmatchedEnd_AsMissing(end) ==
  LET name == qname_to_string(end.name) IN
  ErrResult(MissingEndTag(IF name.ok THEN name.val ELSE <<>>))

\* the End branch of the walk: an end event met while no start is open
UnmatchedEnd(end) ==
  LET name == qname_to_string(end.name) IN
  IF name.ok THEN ErrResult(UnmatchedEndTag(name.val))
  ELSE ErrResult(NonDecodable)

\* ScanSubEvents collecting only the events that are neither start nor end
RECURSIVE ScanSubEvents_LeavesOnly(_, _, _, _)
ScanSubEvents_LeavesOnly(events, j, depth, sub_events) ==
  IF j > Len(events) \/ ~events[j].ok
    THEN [found |-> FALSE]
    ELSE LET event == events[j].event
             d == IF event.type = "Start" THEN depth + 1
                  ELSE IF event.type = "End" THEN depth - 1
                  ELSE depth
         IN IF event.type = "End" /\ d = 0
              THEN [found |-> TRUE, sub_events |-> sub_events, next |-> j + 1]
              ELSE ScanSubEvents_LeavesOnly(events, j + 1, d,
                     IF event.type \in {"Start", "End"} THEN sub_events
                     ELSE Append(sub_events, OkEv(event)))

\* ScanSubEvents reading from a copy of the iterator: the caller's iterator
\* stays right after the start event
RECURSIVE ScanSubEvents_OnACopy(_, _, _, _)
ScanSubEvents_OnACopy(events, j, depth, sub_events) ==
  IF j > Len(events) \/ ~events[j].ok
    THEN [found |-> FALSE]
    ELSE LET event == events[j].event
             d == IF event.type = "Start" THEN depth + 1
                  ELSE IF event.type = "End" THEN depth - 1
                  ELSE depth
         IN IF event.type = "End" /\ d = 0
              THEN [found |-> TRUE, sub_events |-> sub_events,
                    next |-> j - Len(sub_events)]
              ELSE ScanSubEvents_OnACopy(events, j + 1, d,
                                         Append(sub_events, OkEv(event)))

\* ScanSubEvents collecting the closing end event too
RECURSIVE ScanSubEvents_KeepsEnd(_, _, _, _)
ScanSubEvents_KeepsEnd(events, j, depth, sub_events) ==
  IF j > Len(events) \/ ~events[j].ok
    THEN [found |-> FALSE]
    ELSE LET event == events[j].event
             d == IF event.type = "Start" THEN depth + 1
                  ELSE IF event.type = "End" THEN depth - 1
                  ELSE depth
         IN IF event.type = "End" /\ d = 0
              THEN [found |-> TRUE, sub_events |-> Append(sub_events, OkEv(event)),
                    next |-> j + 1]
              ELSE ScanSubEvents_KeepsEnd(events, j + 1, d,
                                          Append(sub_events, OkEv(event)))

\* the scanning loop of the Start branch: events after the start event are
\* taken from the shared iterator until the depth counter reaches zero
RECURSIVE ScanSubEvents(_, _, _, _)
ScanSubEvents(events, j, depth, sub_events) ==
  IF j > Len(events) \/ ~events[j].ok
    THEN [found |-> FALSE]
    ELSE LET event == events[j].event
             d == IF event.type = "Start" THEN depth + 1
                  ELSE IF event.type = "End" THEN depth - 1
                  ELSE depth
         IN IF event.type = "End" /\ d = 0
              THEN [found |-> TRUE, sub_events |-> sub_events, next |-> j + 1]
              ELSE ScanSubEvents(events, j + 1, d, Append(sub_events, OkEv(event)))

RECURSIVE ParseLoop(_, _, _)
parse_events(events) == ParseLoop(events, 1, <<>>)

\* the walk of parse_events from the i-th event on, items being the items
\* pushed so far
ParseLoop(events, i, items) ==
  IF i > Len(events) THEN OkItems(items)
  ELSE IF ~events[i].ok THEN ErrResult(events[i].error)
  ELSE LET ev == events[i].event IN
    IF ev.type \in LeafKinds
      THEN ParseLoop(events, i + 1,
                     Append(items, LeafItem(ev.type, OtherOf(ev.type, ev.value))))
    ELSE IF ev.type = "Empty"
      THEN ParseLoop(events, i + 1, Append(items, ElementItem(ev.start, <<>>, TRUE)))
    ELSE IF ev.type = "Start"
      THEN LET scan == ScanSubEvents(events, i + 1, 1, <<>>) IN
           IF ~scan.found THEN MissingEnd(ev.start)
           ELSE LET children == parse_events(scan.sub_events) IN
                IF children.tag # "Ok" THEN children
                ELSE ParseLoop(events, scan.next,
                               Append(items, ElementItem(ev.start, children.items, FALSE)))
    ELSE IF ev.type = "End" THEN UnmatchedEnd(ev)
    ELSE PanicResult

RECURSIVE CallsFrom(_, _)
\* the recursive calls a call of parse_events makes, directly and through the
\* calls it makes: each with the sequence of the calling call and the
\* sub-sequence handed over
CallsOf(events) == CallsFrom(events, 1)

CallsFrom(events, i) ==
  IF i > Len(events) \/ ~events[i].ok THEN {}
  ELSE LET ev == events[i].event IN
    IF ev.type \in LeafKinds \cup {"Empty"} THEN CallsFrom(events, i + 1)
    ELSE IF ev.type = "Start"
      THEN LET scan == ScanSubEvents(events, i + 1, 1, <<>>) IN
           IF ~scan.found THEN {}
           ELSE {[caller |-> events, sub_events |-> scan.sub_events]}
                \cup CallsOf(scan.sub_events)
                \cup (IF parse_events(scan.sub_events).tag = "Ok"
                        THEN CallsFrom(events, scan.next) ELSE {})
    ELSE {}

\* where the scanning loop started after position i stops when it does not
\* find the closing end event: at the first error, or past the last event
ScanStop(events, i) ==
  LET errors == { k \in (i + 1)..Len(events) : ~events[k].ok } IN
  IF errors = {} THEN Len(events)
  ELSE CHOOSE k \in errors : \A l \in errors : k <= l

RECURSIVE TakenFrom(_, _)
\* the positions of the events one call of parse_events takes from its
\* iterator with events.next(), in the order it takes them
TakenFrom(events, i) ==
  IF i > Len(events) THEN <<>>
  ELSE IF ~events[i].ok THEN <<i>>
  ELSE LET ev == events[i].event IN
    IF ev.type \in LeafKinds \cup {"Empty"} THEN <<i>> \o TakenFrom(events, i + 1)
    ELSE IF ev.type = "Start"
      THEN LET scan == ScanSubEvents(events, i + 1, 1, <<>>) IN
           IF ~scan.found
             THEN [k \in 1..(ScanStop(events, i) - i + 1) |-> i + k - 1]
           ELSE \* the start event, the collected events, the closing end event
                [k \in 1..(Len(scan.sub_events) + 2) |-> i + k - 1]
                \o (IF parse_events(scan.sub_events).tag = "Ok"
                      THEN TakenFrom(events, scan.next) ELSE <<>>)
    ELSE <<i>>

\* parse / parse_trimmed: the reader's trim_text setting only changes the
\* payload of the text events the reader hands out
parse(reader) == parse_events(read_events(reader))

\* ------------------------------------------------------------------------
\* Serializer
\* ------------------------------------------------------------------------
\* BytesStart::to_end: the end event is made from the name of the start
to_end(element) == EndEv(element.name)

\* other.rs Other::get_event
get_event(other) == LeafEv(other.kind, other.value)

\* other.rs impl GetEvents for Other
other_get_all_events(other) == <<get_event(other)>>

RECURSIVE element_get_all_events(_)
RECURSIVE ChildEvents(_, _)

\* item.rs impl GetEvents for Item
item_get_all_events(item) ==
  IF item.kind = "Element" THEN element_get_all_events(item)
  ELSE other_get_all_events(item.other)

\* children.iter().flat_map(|child| child.get_all_events())
ChildEvents(children, i) ==
  IF i > Len(children) THEN <<>>
  ELSE item_get_all_events(children[i]) \o ChildEvents(children, i + 1)

\* element_get_all_events writing every childless element as an empty event
\* get_all_events looking at the flag alone
element_get_all_events_FlagOnly(self) ==
  IF self.self_closing
    THEN <<[type |-> "Empty", start |-> self.element]>>
    ELSE <<[type |-> "Start", start |-> self.element]>>
         \o ChildEvents(self.children, 1)
         \o <<to_end(self.element)>>

element_get_all_events_Childless(self) ==
  IF self.children = <<>>
    THEN <<[type |-> "Empty", start |-> self.element]>>
    ELSE <<[type |-> "Start", start |-> self.element]>>
         \o ChildEvents(self.children, 1)
         \o <<to_end(self.element)>>

\* element.rs impl GetEvents for Element
element_get_all_events(self) ==
  IF self.self_closing /\ self.children = <<>>
    THEN <<[type |-> "Empty", start |-> self.element]>>
    ELSE <<[type |-> "Start", start |-> self.element]>>
         \o ChildEvents(self.children, 1)
         \o <<to_end(self.element)>>

\* the byte strings the Writer puts between its ASCII delimiters for an event
RECURSIVE AttrPieces(_, _)
AttrPieces(attrs, i) ==
  IF i > Len(attrs) THEN <<>>
  ELSE (IF Malformed(attrs[i]) THEN <<attrs[i][1]>>
        ELSE <<attrs[i][1], attrs[i][2]>>)
       \o AttrPieces(attrs, i + 1)

EventPieces(event) ==
  IF event.type \in {"Start", "Empty"}
    THEN <<event.start.name>> \o AttrPieces(event.start.attrs, 1)
  ELSE IF event.type = "End" THEN <<event.name>>
  ELSE IF event.type = "Eof" THEN <<>>
  ELSE <<event.value>>

\* String::from_utf8 on the Writer's buffer
WrittenIsUtf8(events) ==
  \A i \in 1..Len(events) :
    \A k \in 1..Len(EventPieces(events[i])) :
      IsUtf8From(EventPieces(events[i])[k], 1)

\* element.rs impl ToStringSafe for Element: the written events, or a
\* decode error when the written bytes are not text
element_to_string_safe(self) ==
  LET events == element_get_all_events(self) IN
  IF WrittenIsUtf8(events) THEN [ok |-> TRUE, val |-> events]
  ELSE [ok |-> FALSE, error |-> NonDecodable]

\* ToStringSafe for the leaf kinds: the one event of the leaf is written
other_to_string_safe(other) ==
  LET events == other_get_all_events(other) IN
  IF WrittenIsUtf8(events) THEN [ok |-> TRUE, val |-> events]
  ELSE [ok |-> FALSE, error |-> NonDecodable]

\* ToStringSafe for Item
item_to_string_safe(item) ==
  IF item.kind = "Element" THEN element_to_string_safe(item)
  ELSE other_to_string_safe(item.other)

\* parsing.rs items_to_string: the items that fail to serialize are left out
RECURSIVE ItemsToStringFrom(_, _)
\* items_to_string giving up at the first item that fails
ItemsToStringFrom_StopAtError(its, i) ==
  IF i > Len(its) THEN <<>>
  ELSE LET result == item_to_string_safe(its[i]) IN
       IF result.ok THEN result.val \o ItemsToStringFrom(its, i + 1) ELSE <<>>

ItemsToStringFrom(its, i) ==
  IF i > Len(its) THEN <<>>
  ELSE LET result == item_to_string_safe(its[i]) IN
       (IF result.ok THEN result.val ELSE <<>>) \o ItemsToStringFrom(its, i + 1)

items_to_string(its) == ItemsToStringFrom(its, 1)

\* ------------------------------------------------------------------------
\* Traversal engine.  A yielded reference is the path of child positions
\* that leads from the queried element to the item.
\* ------------------------------------------------------------------------
PrefixAll(i, refs) == [k \in 1..Len(refs) |-> <<i>> \o refs[k]]

RECURSIVE get_items_at_depth(_, _)
RECURSIVE DepthFlatMap(_, _, _)

\* filter_map to the child elements, flat_map over their items at depth - 1
DepthFlatMap(children, i, depth) ==
  IF i > Len(children) THEN [panic |-> FALSE, refs |-> <<>>]
  ELSE IF children[i].kind # "Element" THEN DepthFlatMap(children, i + 1, depth)
  ELSE LET head == get_items_at_depth(children[i], depth - 1)
           tail == DepthFlatMap(children, i + 1, depth)
       IN IF head.panic \/ tail.panic THEN [panic |-> TRUE]
          ELSE [panic |-> FALSE, refs |-> PrefixAll(i, head.refs) \o tail.refs]

\* get_items_at_depth descending with the depth already decremented
get_items_at_depth_TwoDown(self, depth) ==
  IF depth = 1
    THEN [panic |-> FALSE, refs |-> [i \in 1..Len(self.children) |-> <<i>>]]
  ELSE IF depth = 0 THEN [panic |-> TRUE]
  ELSE DepthFlatMap(self.children, 1, depth - 1)

\* get_items_at_depth taking every depth below 2 for the children
get_items_at_depth_ZeroIsOne(self, depth) ==
  IF depth <= 1
    THEN [panic |-> FALSE, refs |-> [i \in 1..Len(self.children) |-> <<i>>]]
  ELSE DepthFlatMap(self.children, 1, depth)

\* element.rs Element::get_items_at_depth and get_items_at_depth_mut
get_items_at_depth(self, depth) ==
  IF depth = 1
    THEN [panic |-> FALSE, refs |-> [i \in 1..Len(self.children) |-> <<i>>]]
  ELSE IF depth = 0 THEN [panic |-> TRUE]
  ELSE DepthFlatMap(self.children, 1, depth)

\* the predicates handed to find_descendants
Predicates == {"IsElement", "IsText", "NamedA", "Any"}

Holds(predicate, item) ==
  CASE predicate = "IsElement" -> item.kind = "Element"
    [] predicate = "IsText" -> item.kind = "Text"
    [] predicate = "NamedA" -> item.kind = "Element" /\ item.element.name = NameA
    [] OTHER -> TRUE

RECURSIVE find_descendants(_, _)
RECURSIVE MatchingChildren(_, _, _)
RECURSIVE MatchingDescendants(_, _, _)

\* self.children.iter().filter(|item| predicate(item))
MatchingChildren(children, i, predicate) ==
  IF i > Len(children) THEN <<>>
  ELSE (IF Holds(predicate, children[i]) THEN <<(<<i>>)>> ELSE <<>>)
       \o MatchingChildren(children, i + 1, predicate)

\* filter_map to the child elements, flat_map over their find_descendants
MatchingDescendants(children, i, predicate) ==
  IF i > Len(children) THEN <<>>
  ELSE (IF children[i].kind = "Element"
          THEN PrefixAll(i, find_descendants(children[i], predicate))
          ELSE <<>>)
       \o MatchingDescendants(children, i + 1, predicate)

\* find_descendants that looks at the direct children only
find_descendants_ChildrenOnly(self, predicate) ==
  MatchingChildren(self.children, 1, predicate)

\* find_descendants chaining the deeper matches before the direct ones
find_descendants_DeepFirst(self, predicate) ==
  MatchingDescendants(self.children, 1, predicate)
  \o MatchingChildren(self.children, 1, predicate)

\* find_descendants walking the tree depth first: a child, then what is
\* inside it, then the next child
RECURSIVE InterleavedMatches(_, _, _)
InterleavedMatches(children, i, predicate) ==
  IF i > Len(children) THEN <<>>
  ELSE (IF Holds(predicate, children[i]) THEN <<(<<i>>)>> ELSE <<>>)
       \o (IF children[i].kind = "Element"
             THEN PrefixAll(i, find_descendants(children[i], predicate))
             ELSE <<>>)
       \o InterleavedMatches(children, i + 1, predicate)

find_descendants_DepthFirst(self, predicate) ==
  InterleavedMatches(self.children, 1, predicate)

\* find_descendants testing the predicate on the child elements only
find_descendants_ElementsOnly(self, predicate) ==
  SelectSeq(MatchingChildren(self.children, 1, predicate),
            LAMBDA ref : self.children[ref[1]].kind = "Element")
  \o MatchingDescendants(self.children, 1, predicate)

\* element.rs Element::find_descendants
find_descendants(self, predicate) ==
  MatchingChildren(self.children, 1, predicate)
  \o MatchingDescendants(self.children, 1, predicate)

\* ------------------------------------------------------------------------
\* Positions in a tree
\* ------------------------------------------------------------------------
RECURSIVE ItemAt(_, _)
ItemAt(its, path) ==
  IF Len(path) = 1 THEN its[path[1]]
  ELSE ItemAt(its[path[1]].children, Tail(path))

\* all paths into a sequence of items
RECURSIVE PathsOf(_)
PathsOf(its) ==
  UNION { {<<i>>} \cup
          (IF its[i].kind = "Element"
             THEN { <<i>> \o p : p \in PathsOf(its[i].children) }
             ELSE {}) : i \in 1..Len(its) }

ElementPaths(its) == { p \in PathsOf(its) : ItemAt(its, p).kind = "Element" }

\* ------------------------------------------------------------------------
\* Text content
\* ------------------------------------------------------------------------
\* other.rs Other::get_value
get_value(other) == u8_to_string(other.value)

RECURSIVE get_text_content(_)
RECURSIVE TextOfChildren(_, _)

\* the filter_map / collect over the children: a text child gives its value
\* when it decodes, a child element its own text content, the rest nothing
TextOfChildren(children, i) ==
  IF i > Len(children) THEN <<>>
  ELSE (IF children[i].kind = "Text"
          THEN LET value == get_value(children[i].other) IN
               IF value.ok THEN value.val ELSE <<>>
        ELSE IF children[i].kind = "Element" THEN get_text_content(children[i])
        ELSE <<>>)
       \o TextOfChildren(children, i + 1)

\* get_text_content looking at the direct children only
get_text_content_Shallow(self) ==
  TextOfChildren(SelectSeq(self.children, LAMBDA c : c.kind = "Text"), 1)

\* element.rs Element::get_text_content
get_text_content(self) == TextOfChildren(self.children, 1)

\* ------------------------------------------------------------------------
\* Tag accessor
\* ------------------------------------------------------------------------
\* quick_xml escape: the five characters & < > ' " become entities
EscapeByte(b) ==
  IF b = 38 THEN <<38, 97, 109, 112, 59>>
  ELSE IF b = 60 THEN <<38, 108, 116, 59>>
  ELSE IF b = 62 THEN <<38, 103, 116, 59>>
  ELSE IF b = 39 THEN <<38, 97, 112, 111, 115, 59>>
  ELSE IF b = 34 THEN <<38, 113, 117, 111, 116, 59>>
  ELSE <<b>>

RECURSIVE escape(_)
escape(raw) ==
  IF raw = <<>> THEN <<>> ELSE EscapeByte(Head(raw)) \o escape(Tail(raw))

\* BytesStart::attributes(): the entries of the attribute list in order; the
\* iterator yields an error for a key without = (and goes on with the next
\* entry), it checks keys for uniqueness and yields an error for an entry
\* whose key an earlier key="value" entry has
Attributes(start) ==
  [i \in 1..Len(start.attrs) |->
    IF Malformed(start.attrs[i]) THEN [ok |-> FALSE]
    ELSE IF \E k \in 1..(i - 1) : /\ ~Malformed(start.attrs[k])
                                  /\ start.attrs[k][1] = start.attrs[i][1]
      THEN [ok |-> FALSE]
      ELSE [ok |-> TRUE, key |-> start.attrs[i][1], value |-> start.attrs[i][2]]]

\* BytesStart::attributes().with_checks(false): no check for uniqueness
AttributesUnchecked(start) ==
  [i \in 1..Len(start.attrs) |->
    IF Malformed(start.attrs[i]) THEN [ok |-> FALSE]
    ELSE [ok |-> TRUE, key |-> start.attrs[i][1], value |-> start.attrs[i][2]]]

\* element.rs Element::get_all_attributes: the entries that are Ok and whose
\* key and value decode
get_all_attributes(self) ==
  LET oks == SelectSeq(Attributes(self.element), LAMBDA attr : attr.ok)
      decoded == [i \in 1..Len(oks) |->
                   <<qname_to_string(oks[i].key), u8_to_string(oks[i].value)>>]
      kept == SelectSeq(decoded, LAMBDA attr : attr[1].ok /\ attr[2].ok)
  IN [i \in 1..Len(kept) |-> <<kept[i][1].val, kept[i][2].val>>]

\* HashMap::from_iter: a later pair replaces an earlier pair of the same key
FromIter(pairs) ==
  [k \in { pairs[i][1] : i \in 1..Len(pairs) } |->
     LET last == CHOOSE i \in 1..Len(pairs) :
                   /\ pairs[i][1] = k
                   /\ \A j \in (i + 1)..Len(pairs) : pairs[j][1] # k
     IN pairs[last][2]]

\* element.rs Element::get_attributes
get_attributes(self) == FromIter(get_all_attributes(self))

\* HashMap::insert
Insert(map, key, value) ==
  [k \in DOMAIN map \cup {key} |-> IF k = key THEN value ELSE map[k]]

\* the orders in which a HashMap can hand out its keys
IterOrders(map) ==
  { order \in [1..Cardinality(DOMAIN map) -> DOMAIN map] :
      \A i, j \in DOMAIN order : i # j => order[i] # order[j] }

\* set_attribute writing the values back as they are, without escaping
set_attribute_Raw(self, key, value, order) ==
  LET attributes == Insert(get_attributes(self), key, value) IN
  [self EXCEPT !.element.attrs =
     [i \in 1..Len(order) |-> <<order[i], attributes[order[i]]>>]]

\* set_attribute building the start tag anew and leaving the flag clear
set_attribute_Rebuilt(self, key, value, order) ==
  LET attributes == Insert(get_attributes(self), key, value) IN
  ElementItem(BytesStart(self.element.name,
                [i \in 1..Len(order) |-> <<order[i], escape(attributes[order[i]])>>]),
              self.children, FALSE)

\* element.rs Element::set_attribute: the collapsed map with the key
\* inserted is written back by extend_attributes, which escapes each value;
\* order is the order in which the map is iterated
set_attribute(self, key, value, order) ==
  LET attributes == Insert(get_attributes(self), key, value) IN
  [self EXCEPT !.element.attrs =
     [i \in 1..Len(order) |-> <<order[i], escape(attributes[order[i]])>>]]

\* BytesStart::try_get_attribute: the entries are walked in order without the
\* duplicate check; an entry the iterator reports as an error ends the walk
\* with that error (let a = a?), the first entry that carries the key ends it
\* with that entry
try_get_attribute(start, key) ==
  LET attrs == AttributesUnchecked(start)
      stops == { i \in 1..Len(attrs) : ~attrs[i].ok \/ attrs[i].key = key }
  IN IF stops = {} THEN [ok |-> TRUE, some |-> FALSE]
     ELSE LET first == CHOOSE i \in stops : \A j \in stops : i <= j IN
          IF ~attrs[first].ok THEN [ok |-> FALSE]
          ELSE [ok |-> TRUE, some |-> TRUE, value |-> attrs[first].value]

OkNone == [tag |-> "Ok", some |-> FALSE]
OkSome(value) == [tag |-> "Ok", some |-> TRUE, val |-> value]

\* util.rs get_attribute
util_get_attribute(start, key) ==
  LET attr == try_get_attribute(start, key) IN
  IF ~attr.ok THEN ErrResult(InvalidAttr)
  ELSE IF ~attr.some THEN OkNone
  ELSE LET value_res == u8_to_string(attr.value) IN
       IF ~value_res.ok THEN ErrResult(NonDecodable)
       ELSE OkSome(value_res.val)

\* element.rs Element::get_attribute
get_attribute(self, key) ==
  LET attr == try_get_attribute(self.element, key) IN
  IF ~attr.ok THEN ErrResult(InvalidAttr)
  ELSE IF ~attr.some THEN OkNone
  ELSE LET value_res == u8_to_string(attr.value) IN
       IF ~value_res.ok THEN ErrResult(NonDecodable)
       ELSE OkSome(value_res.val)

RECURSIVE InsertAll(_, _, _)
\* the for loop of util.rs get_attributes: the first key or value that does
\* not decode ends the call with the error
InsertAll(attrs, i, attributes) ==
  IF i > Len(attrs) THEN [ok |-> TRUE, val |-> attributes]
  ELSE LET key == qname_to_string(attrs[i].key)
           value == u8_to_string(attrs[i].value)
       IN IF ~key.ok \/ ~value.ok THEN [ok |-> FALSE]
          ELSE InsertAll(attrs, i + 1, Insert(attributes, key.val, value.val))

\* util.rs get_attributes giving up on an entry the attribute iterator
\* reports as an error
util_get_attributes_Strict(start) ==
  IF \E i \in 1..Len(start.attrs) : ~Attributes(start)[i].ok
    THEN [ok |-> FALSE]
    ELSE InsertAll(Attributes(start), 1, <<>>)

\* util.rs get_attributes
util_get_attributes(start) ==
  LET attrs == SelectSeq(Attributes(start), LAMBDA attr : attr.ok) IN
  InsertAll(attrs, 1, <<>>)

\* empty_element.rs: EmptyElement and TryFrom<Element>
EmptyElementOf(start) == [element |-> start]

try_from(value) ==
  IF value.children = <<>>
    THEN [ok |-> TRUE, val |-> EmptyElementOf(value.element)]
    ELSE [ok |-> FALSE]

\* empty_element.rs impl Tag for EmptyElement
empty_get_attributes(self) == util_get_attributes(self.element)
empty_get_attribute(self, key) == util_get_attribute(self.element, key)

\* set_name replacing the start tag by a new one of that name
set_name_NewStart(self, name) ==
  [self EXCEPT !.element = BytesStart(name, <<>>)]

\* element.rs Element::set_name
set_name(self, name) == [self EXCEPT !.element.name = name]

\* element.rs Element::get_name
get_name(self) == qname_to_string(self.element.name)

\* ------------------------------------------------------------------------
\* Constructors and the caller's changes of a tree
\* ------------------------------------------------------------------------
\* item.rs Item::new_element
new_element(name, self_closing) ==
  ElementItem(BytesStart(name, <<>>), <<>>, self_closing)

\* item.rs Item::new_text: BytesText::new escapes the content
new_text(content) == LeafItem("Text", OtherOf("Text", escape(content)))

\* item.rs Item::new_comment
new_comment(content) == LeafItem("Comment", OtherOf("Comment", escape(content)))

\* the tree with the item at a path replaced (a change made through &mut)
RECURSIVE ReplaceAt(_, _, _)
ReplaceAt(its, path, item) ==
  IF Len(path) = 1 THEN [its EXCEPT ![path[1]] = item]
  ELSE [its EXCEPT ![path[1]].children = ReplaceAt(@, Tail(path), item)]

\* element.children.push(item)
\* the pub field self_closing written by the caller
set_self_closing(self, flag) == [self EXCEPT !.self_closing = flag]

\* an iterator over the events of a serialized tree
FromEvents(events) == [i \in 1..Len(events) |-> OkEv(events[i])]

\* a push that clears the flag of the element it pushes into
push_child_Unflag(self, item) ==
  [self EXCEPT !.children = Append(@, item), !.self_closing = FALSE]

push_child(self, item) == [self EXCEPT !.children = Append(@, item)]

\* element.children.pop()
pop_child(self) ==
  [self EXCEPT !.children = IF @ = <<>> THEN <<>> ELSE SubSeq(@, 1, Len(@) - 1)]

\* ------------------------------------------------------------------------
\* The explored inputs: what the reader yields for a document
\* ------------------------------------------------------------------------
\* every kind of event and of error the reader can yield
FullAlphabet ==
  { OkEv(LeafEv(k, TextT)) : k \in LeafKinds }
  \cup { OkEv(EmptyEv(NameA)) }
  \cup { OkEv(StartEv(n)) : n \in {NameA, NameB} }
  \cup { OkEv(EndEv(n)) : n \in {NameA, NameB} }
  \cup { ErrEv(SyntaxError), ErrEv(MismatchedEndTag(NameA, NameB)) }

\* the events that decide the shape of the tree
CoreAlphabet ==
  { OkEv(StartEv(NameA)), OkEv(EndEv(NameA)), OkEv(EmptyEv(NameB)),
    OkEv(LeafEv("Text", TextT)) }

StreamsUpTo(alphabet, n) == UNION { [1..k -> alphabet] : k \in 0..n }

\* <a><b/><c/><d><e/></d></a>
ExampleSiblings ==
  << OkEv(StartEv(NameA)), OkEv(EmptyEv(NameB)), OkEv(EmptyEv(NameC)),
     OkEv(StartEv(NameD)), OkEv(EmptyEv(NameE)), OkEv(EndEv(NameD)),
     OkEv(EndEv(NameA)) >>

Streams ==
  StreamsUpTo(FullAlphabet, MaxLen) \cup StreamsUpTo(CoreAlphabet, MaxCoreLen)
  \cup {ExampleSiblings}

\* ------------------------------------------------------------------------
\* State
\* ------------------------------------------------------------------------
VARIABLES
  reader,   \* the results of the reader's read_event calls, Eof last
  phase,    \* "init", then "parsed" or "failed"
  result,   \* what parse returned
  items,    \* the tree the caller holds after a successful parse
  text,     \* what items_to_string returned last
  query     \* the last traversal call and what it yielded

vars == <<reader, phase, result, items, text, query>>

NoResult == [tag |-> "None"]
NoText == [tag |-> "None"]
NoQuery == [op |-> "none"]

Init ==
  /\ reader \in { s \o <<OkEv(EofEv)>> : s \in Streams }
  /\ phase = "init"
  /\ result = NoResult
  /\ items = <<>>
  /\ text = NoText
  /\ query = NoQuery

\* parse(xml)
Parse ==
  /\ phase = "init"
  /\ LET r == parse(reader) IN
       /\ result' = r
       /\ phase' = IF r.tag = "Ok" THEN "parsed" ELSE "failed"
       /\ items' = IF r.tag = "Ok" THEN r.items ELSE <<>>
  /\ UNCHANGED <<reader, text, query>>

\* items_to_string(&items)
ItemsToString ==
  /\ phase = "parsed"
  /\ text' = [tag |-> "Some", val |-> items_to_string(items)]
  /\ UNCHANGED <<reader, phase, result, items, query>>

\* element.get_items_at_depth(depth) on an element of the tree
GetItemsAtDepth ==
  /\ phase = "parsed"
  /\ \E at \in ElementPaths(items), depth \in 0..MaxDepthArg :
       query' = [op |-> "get_items_at_depth", at |-> at, depth |-> depth,
                 res |-> get_items_at_depth(ItemAt(items, at), depth)]
  /\ UNCHANGED <<reader, phase, result, items, text>>

\* element.find_descendants(&predicate) on an element of the tree
FindDescendants ==
  /\ phase = "parsed"
  /\ \E at \in ElementPaths(items), predicate \in Predicates :
       query' = [op |-> "find_descendants", at |-> at, predicate |-> predicate,
                 refs |-> find_descendants(ItemAt(items, at), predicate)]
  /\ UNCHANGED <<reader, phase, result, items, text>>

Next == Parse \/ ItemsToString \/ GetItemsAtDepth \/ FindDescendants

Spec == Init /\ [][Next]_vars

\* the walk alone, with the fairness its being one uninterrupted call gives:
\* once parse is called, nothing but the walk itself decides whether it returns
MaxLiveLen == 4

\* the events that decide how the walk proceeds, and an error of the reader
LiveAlphabet ==
  { OkEv(StartEv(NameA)), OkEv(EndEv(NameA)), OkEv(EmptyEv(NameB)),
    OkEv(LeafEv("Text", TextT)), ErrEv(SyntaxError) }

InitLive ==
  /\ reader \in { s \o <<OkEv(EofEv)>> : s \in StreamsUpTo(LiveAlphabet, MaxLiveLen) }
  /\ phase = "init"
  /\ result = NoResult
  /\ items = <<>>
  /\ text = NoText
  /\ query = NoQuery

NextLive == Parse \/ ItemsToString

SpecLive == InitLive /\ [][NextLive]_vars /\ WF_vars(Parse)

\* ------------------------------------------------------------------------
\* A tree changed by its owner: children pushed and popped, names and
\* attributes set, and the tree serialized and queried in between
\* ------------------------------------------------------------------------
KeyX == <<120>>
KeyY == <<121>>
Value1 == <<49>>
Value2 == <<50>>
Ampersand == <<38>>
TextU == <<117>>
\* a byte that is not UTF-8, as in a text event read from raw bytes
NotUtf8 == <<255>>

\* the items the caller pushes
NewItems ==
  { new_element(NameA, FALSE), new_element(NameB, TRUE),
    new_text(TextT), new_text(TextU), new_comment(TextT),
    LeafItem("Text", OtherOf("Text", NotUtf8)),
    push_child(new_element(NameA, FALSE),
               LeafItem("Text", OtherOf("Text", NotUtf8))) }

\* "", <a/>, <a>t</a>, <a>t<b>u</b><!--t--></a>, <a><b/></a><a/>t
EditDocs ==
  { <<>>,
    << OkEv(EmptyEv(NameA)) >>,
    << OkEv(StartEv(NameA)), OkEv(LeafEv("Text", TextT)), OkEv(EndEv(NameA)) >>,
    << OkEv(StartEv(NameA)), OkEv(LeafEv("Text", TextT)),
       OkEv(StartEv(NameB)), OkEv(LeafEv("Text", TextU)), OkEv(EndEv(NameB)),
       OkEv(LeafEv("Comment", TextT)), OkEv(EndEv(NameA)) >>,
    << OkEv(StartEv(NameA)), OkEv(EmptyEv(NameB)), OkEv(EndEv(NameA)),
       OkEv(EmptyEv(NameA)), OkEv(LeafEv("Text", TextT)) >> }

InitEdit ==
  /\ reader \in { s \o <<OkEv(EofEv)>> : s \in EditDocs }
  /\ phase = "init"
  /\ result = NoResult
  /\ items = <<>>
  /\ text = NoText
  /\ query = NoQuery

NodeCount(its) == Cardinality(PathsOf(its))

RECURSIVE SumLens(_, _)
SumLens(its, paths) ==
  IF paths = {} THEN 0
  ELSE LET p == CHOOSE q \in paths : TRUE IN
       Len(ItemAt(its, p).element.attrs) + SumLens(its, paths \ {p})

AttrCount(its) == SumLens(its, ElementPaths(its))

\* items.push(item) on the sequence parse returned, item out of the given set
PushItemOf(new_items) ==
  /\ phase = "parsed"
  /\ NodeCount(items) < MaxNodes
  /\ \E item \in new_items :
       /\ items' = Append(items, item)
       /\ query' = [op |-> "push_item", item |-> item, before |-> items]
  /\ text' = NoText
  /\ UNCHANGED <<reader, phase, result>>

PushItem == PushItemOf(NewItems)

\* element.children.push(item), item out of the given set
PushChildOf(new_items) ==
  /\ phase = "parsed"
  /\ NodeCount(items) < MaxNodes
  /\ \E at \in ElementPaths(items), item \in new_items :
       /\ items' = ReplaceAt(items, at, push_child(ItemAt(items, at), item))
       /\ query' = [op |-> "push_child", at |-> at, item |-> item, before |-> items]
  /\ text' = NoText
  /\ UNCHANGED <<reader, phase, result>>

PushChild == PushChildOf(NewItems)

\* element.children.pop()
PopChild ==
  /\ phase = "parsed"
  /\ \E at \in ElementPaths(items) :
       /\ items' = ReplaceAt(items, at, pop_child(ItemAt(items, at)))
       /\ query' = [op |-> "pop_child", at |-> at, before |-> items]
  /\ text' = NoText
  /\ UNCHANGED <<reader, phase, result>>

\* element.self_closing = flag
SetSelfClosing ==
  /\ phase = "parsed"
  /\ \E at \in ElementPaths(items), flag \in BOOLEAN :
       /\ items' = ReplaceAt(items, at, set_self_closing(ItemAt(items, at), flag))
       /\ query' = [op |-> "set_self_closing", at |-> at, flag |-> flag,
                    before |-> items]
  /\ text' = NoText
  /\ UNCHANGED <<reader, phase, result>>

\* the tokens of the tree handed to the builder
Rebuild ==
  /\ phase = "parsed"
  /\ query' = [op |-> "rebuild",
               events |-> ChildEvents(items, 1),
               res |-> parse_events(FromEvents(ChildEvents(items, 1)))]
  /\ UNCHANGED <<reader, phase, result, items, text>>

\* element.set_name(name)
SetName ==
  /\ phase = "parsed"
  /\ \E at \in ElementPaths(items), name \in {NameA, NameB} :
       /\ items' = ReplaceAt(items, at, set_name(ItemAt(items, at), name))
       /\ query' = [op |-> "set_name", at |-> at, name |-> name, before |-> items]
  /\ text' = NoText
  /\ UNCHANGED <<reader, phase, result>>

\* element.set_attribute(key, value) with keys and values of the given sets
SetAttributeOf(keys, values) ==
  /\ phase = "parsed"
  /\ \E at \in ElementPaths(items), key \in keys, value \in values :
       LET self == ItemAt(items, at) IN
       \E order \in IterOrders(Insert(get_attributes(self), key, value)) :
         LET changed == set_attribute(self, key, value, order) IN
         /\ \A i \in 1..Len(changed.element.attrs) :
              Len(changed.element.attrs[i][2]) <= MaxValueLen
         /\ AttrCount(ReplaceAt(items, at, changed)) <= MaxAttrs
         /\ items' = ReplaceAt(items, at, changed)
         /\ query' = [op |-> "set_attribute", at |-> at, key |-> key,
                      value |-> value, before |-> items]
  /\ text' = NoText
  /\ UNCHANGED <<reader, phase, result>>

\* element.get_attributes()
GetAttributes ==
  /\ phase = "parsed"
  /\ \E at \in ElementPaths(items) :
       query' = [op |-> "get_attributes", at |-> at,
                 res |-> get_attributes(ItemAt(items, at))]
  /\ UNCHANGED <<reader, phase, result, items, text>>

\* element.get_name()
GetName ==
  /\ phase = "parsed"
  /\ \E at \in ElementPaths(items) :
       query' = [op |-> "get_name", at |-> at, res |-> get_name(ItemAt(items, at))]
  /\ UNCHANGED <<reader, phase, result, items, text>>

\* element.get_text_content()
GetTextContent ==
  /\ phase = "parsed"
  /\ \E at \in ElementPaths(items) :
       query' = [op |-> "get_text_content", at |-> at,
                 res |-> get_text_content(ItemAt(items, at))]
  /\ UNCHANGED <<reader, phase, result, items, text>>

\* element.to_string_safe()
ElementToString ==
  /\ phase = "parsed"
  /\ \E at \in ElementPaths(items) :
       query' = [op |-> "to_string_safe", at |-> at,
                 res |-> element_to_string_safe(ItemAt(items, at))]
  /\ UNCHANGED <<reader, phase, result, items, text>>

SetAttributeX1 == SetAttributeOf({KeyX}, {Value1})

NextEdit ==
  \/ Parse \/ PushItem \/ PushChild \/ PopChild \/ SetName \/ SetAttributeX1
  \/ ItemsToString \/ ElementToString \/ GetTextContent \/ GetName

SpecEdit == InitEdit /\ [][NextEdit]_vars

\* ------------------------------------------------------------------------
\* A tree changed by its owner, serialized and built again from its tokens
\* ------------------------------------------------------------------------
\* the items the caller pushes: an element, a text, and a text item put
\* around the payload of a comment
ShapeItems ==
  { new_element(NameA, FALSE), new_text(TextT),
    LeafItem("Text", new_comment(TextT).other) }

PushShapeItem == PushItemOf(ShapeItems)
PushShapeChild == PushChildOf(ShapeItems)

NextShape ==
  \/ Parse \/ PushShapeItem \/ PushShapeChild \/ PopChild \/ SetSelfClosing
  \/ SetName \/ SetAttributeX1 \/ ItemsToString \/ Rebuild

SpecShape == InitEdit /\ [][NextShape]_vars

\* ------------------------------------------------------------------------
\* Start tags with attributes, read and rewritten
\* ------------------------------------------------------------------------
AmpEntity == <<38, 97, 109, 112, 59>>

\* the key="value" pairs a parsed start tag carries, values as written:
\* x="1", x="2", y="&amp;"
RawAttrs == { <<KeyX, Value1>>, <<KeyX, Value2>>, <<KeyY, AmpEntity>> }

AttrLists == UNION { [1..n -> RawAttrs] : n \in 0..MaxAttrs }

StartWith(name, attrs) == [type |-> "Start", start |-> BytesStart(name, attrs)]

\* <c></c><a ..>t</a><d/>
AttrDocs ==
  { << OkEv(StartEv(NameC)), OkEv(EndEv(NameC)),
       OkEv(StartWith(NameA, l)), OkEv(LeafEv("Text", TextT)), OkEv(EndEv(NameA)),
       OkEv(EmptyEv(NameD)) >> : l \in AttrLists }

InitAttr ==
  /\ reader \in { s \o <<OkEv(EofEv)>> : s \in AttrDocs }
  /\ phase = "init"
  /\ result = NoResult
  /\ items = <<>>
  /\ text = NoText
  /\ query = NoQuery

\* element.get_attribute(key)
GetAttribute ==
  /\ phase = "parsed"
  /\ \E at \in ElementPaths(items), key \in {KeyX, KeyY} :
       query' = [op |-> "get_attribute", at |-> at, key |-> key,
                 res |-> get_attribute(ItemAt(items, at), key)]
  /\ UNCHANGED <<reader, phase, result, items, text>>

SetAttribute == SetAttributeOf({KeyX, KeyY}, {Value1, Ampersand})

NextAttr ==
  \/ Parse \/ SetAttribute \/ GetAttributes \/ GetAttribute \/ ItemsToString

SpecAttr == InitAttr /\ [][NextAttr]_vars

\* ------------------------------------------------------------------------
\* The attribute accessors over parsed tags whose entries may repeat a key
\* or lack the = and the value
\* ------------------------------------------------------------------------
\* x="1", x="2", y="1", and the keys x and y written alone
TagAttrs ==
  { <<KeyX, Value1>>, <<KeyX, Value2>>, <<KeyY, Value1>>,
    <<KeyX, NoEq>>, <<KeyY, NoEq>> }

TagLists == UNION { [1..n -> TagAttrs] : n \in 0..MaxAttrs }

\* what the reader yields for <a ... /> with such a list of entries
InitTag ==
  /\ reader \in { << OkEv([type |-> "Empty", start |-> BytesStart(NameA, l)]),
                     OkEv(EofEv) >> : l \in TagLists }
  /\ phase = "init"
  /\ result = NoResult
  /\ items = <<>>
  /\ text = NoText
  /\ query = NoQuery

\* EmptyElement::try_from(element) and get_attributes() on it
EmptyGetAttributes ==
  /\ phase = "parsed"
  /\ \E at \in ElementPaths(items) :
       LET empty == try_from(ItemAt(items, at)) IN
       /\ empty.ok
       /\ query' = [op |-> "empty_get_attributes", at |-> at,
                    res |-> empty_get_attributes(empty.val)]
  /\ UNCHANGED <<reader, phase, result, items, text>>

\* EmptyElement::try_from(element) and get_attribute(key) on it
EmptyGetAttribute ==
  /\ phase = "parsed"
  /\ \E at \in ElementPaths(items), key \in {KeyX, KeyY} :
       LET empty == try_from(ItemAt(items, at)) IN
       /\ empty.ok
       /\ query' = [op |-> "empty_get_attribute", at |-> at, key |-> key,
                    res |-> empty_get_attribute(empty.val, key)]
  /\ UNCHANGED <<reader, phase, result, items, text>>

NextTag ==
  \/ Parse
  \/ GetAttributes \/ GetAttribute \/ EmptyGetAttributes \/ EmptyGetAttribute

SpecTag == InitTag /\ [][NextTag]_vars

\* ------------------------------------------------------------------------
\* Vocabulary of the properties
\* ------------------------------------------------------------------------
\* the events the builder is handed
Events == read_events(reader)

AllOk(ev) == \A i \in 1..Len(ev) : ev[i].ok

IsOkType(ev, i, type) == ev[i].ok /\ ev[i].event.type = type

\* start events minus end events among the first i events
RECURSIVE Balance(_, _)
Balance(ev, i) ==
  IF i = 0 THEN 0
  ELSE Balance(ev, i - 1)
       + (IF IsOkType(ev, i, "Start") THEN 1
          ELSE IF IsOkType(ev, i, "End") THEN -1 ELSE 0)

\* well-formed XML: every end event closes the innermost open start event
\* and carries its name, and nothing is left open
RECURSIVE WellNested(_, _, _)
WellNested(ev, i, open) ==
  IF i > Len(ev) THEN open = <<>>
  ELSE IF ~ev[i].ok \/ ev[i].event.type = "Eof" THEN FALSE
  ELSE IF ev[i].event.type = "Start"
    THEN WellNested(ev, i + 1, <<ev[i].event.start.name>> \o open)
  ELSE IF ev[i].event.type = "End"
    THEN open # <<>> /\ Head(open) = ev[i].event.name
         /\ WellNested(ev, i + 1, Tail(open))
  ELSE WellNested(ev, i + 1, open)

WellFormed(ev) == WellNested(ev, 1, <<>>)

\* the end events met while the running count of starts minus ends is zero,
\* nothing before them having dropped the count below zero
StrayEnds(ev) ==
  { i \in 1..Len(ev) :
      /\ IsOkType(ev, i, "End")
      /\ Balance(ev, i - 1) = 0
      /\ \A k \in 1..(i - 1) : Balance(ev, k) >= 0 }

\* the start events at the top level whose count never returns to zero
UnclosedStarts(ev) ==
  { i \in 1..Len(ev) :
      /\ IsOkType(ev, i, "Start")
      /\ Balance(ev, i - 1) = 0
      /\ \A k \in 1..(i - 1) : Balance(ev, k) >= 0
      /\ \A j \in i..Len(ev) : Balance(ev, j) > 0 }

\* ------------------------------------------------------------------------
\* C1: round trip - for a well-formed event stream, parse succeeds and
\* items_to_string of the parsed items writes exactly the events of the
\* stream, in their order, start/end pairs as pairs and empty events as
\* empty events.
\* ------------------------------------------------------------------------
C1_RoundTrip ==
  /\ (phase # "init" /\ WellFormed(Events)) => result.tag = "Ok"
  /\ (text.tag = "Some" /\ WellFormed(Events)) =>
       text.val = [i \in 1..Len(Events) |-> Events[i].event]

\* a well-formed stream with a start/end pair, an empty event and a text
\* has been parsed and written
C1_Witness ==
  /\ text.tag = "Some"
  /\ WellFormed(Events)
  /\ \E i, j, k \in 1..Len(Events) :
       /\ IsOkType(Events, i, "Start")
       /\ IsOkType(Events, j, "Empty")
       /\ IsOkType(Events, k, "Text")

\* ------------------------------------------------------------------------
\* C2 (as claimed): parsing <a></b> fails with an unmatched-end-tag error
\* naming b.  The reader yields for it either the two events, or the start
\* event and its own mismatch error.
\* ------------------------------------------------------------------------
C2_MismatchNamesEnd ==
  (/\ phase # "init"
   /\ Events \in { <<OkEv(StartEv(NameA)), OkEv(EndEv(NameB))>>,
                   <<OkEv(StartEv(NameA)), ErrEv(MismatchedEndTag(NameA, NameB))>> })
  => result = ErrResult(UnmatchedEndTag(NameB))

\* ------------------------------------------------------------------------
\* C3: when the builder meets an end event while no start event is open,
\* parse fails with an unmatched-end-tag error carrying the decoded name of
\* that end event (a decode error when the name is not text); a stream with
\* such an end event never parses to Ok.
\* ------------------------------------------------------------------------
C3_StrayEndFails ==
  phase # "init" =>
    \A i \in StrayEnds(Events) :
      /\ result.tag # "Ok"
      /\ (\A k \in 1..(i - 1) : Events[k].ok) =>
           result = (IF IsUtf8From(Events[i].event.name, 1)
                       THEN ErrResult(UnmatchedEndTag(Events[i].event.name))
                       ELSE ErrResult(NonDecodable))

\* a stray end event that follows a closed element has been met: <a></a></b>
C3_Witness ==
  /\ phase = "failed"
  /\ \E i \in StrayEnds(Events) :
       /\ i > 2
       /\ \A k \in 1..(i - 1) : Events[k].ok
       /\ IsOkType(Events, 1, "Start")
       /\ Events[i].event.name # Events[1].event.start.name

\* ------------------------------------------------------------------------
\* C4: when the events run out before the end event that closes a start
\* event by depth counting, parse fails with a missing-end-tag error that
\* names that start event, the first one of the stream that is never
\* closed; a stream with an unclosed start event never parses to Ok.
\* ------------------------------------------------------------------------
C4_MissingEndNamesStart ==
  phase # "init" =>
    /\ \A i \in UnclosedStarts(Events) :
         AllOk(Events) => result = ErrResult(MissingEndTag(Events[i].event.start.name))
    /\ (\E i \in 1..Len(Events) :
          /\ IsOkType(Events, i, "Start")
          /\ \A j \in i..Len(Events) : Balance(Events, j) > Balance(Events, i - 1))
       => result.tag # "Ok"

\* <a><b></a>: the start of a stays open, a start of another name and an
\* end event follow it
C4_Witness ==
  /\ phase = "failed"
  /\ AllOk(Events)
  /\ \E i \in UnclosedStarts(Events) :
       \E j, k \in (i + 1)..Len(Events) :
         /\ j < k
         /\ IsOkType(Events, j, "Start")
         /\ Events[j].event.start.name # Events[i].event.start.name
         /\ IsOkType(Events, k, "End")

\* ------------------------------------------------------------------------
\* C5 (as claimed): a lexical error the builder takes from the token source
\* is what parse returns, unchanged, also when start events are open.
\* ------------------------------------------------------------------------
C5_LexicalErrorUnchanged ==
  phase # "init" =>
    \A i \in 1..Len(Events) :
      (/\ ~Events[i].ok
       /\ \A k \in 1..(i - 1) : Events[k].ok /\ Balance(Events, k) >= 0)
      => result = ErrResult(Events[i].error)

\* ------------------------------------------------------------------------
\* Document order
\* ------------------------------------------------------------------------
IsProperPrefix(p, q) == Len(p) < Len(q) /\ SubSeq(q, 1, Len(p)) = p

\* p comes before q in the left-to-right, depth-first listing of the nodes
DocBefore(p, q) ==
  \/ IsProperPrefix(p, q)
  \/ \E k \in 1..Len(p) :
       /\ k <= Len(q)
       /\ SubSeq(p, 1, k - 1) = SubSeq(q, 1, k - 1)
       /\ p[k] < q[k]

InDocOrder(refs) ==
  \A i, j \in 1..Len(refs) : i < j => DocBefore(refs[i], refs[j])

\* the paths of the nodes of a tree in document order
RECURSIVE PreOrder(_, _)
PreOrder(its, i) ==
  IF i > Len(its) THEN <<>>
  ELSE <<(<<i>>)>>
       \o (IF its[i].kind = "Element"
             THEN PrefixAll(i, PreOrder(its[i].children, 1)) ELSE <<>>)
       \o PreOrder(its, i + 1)

\* the positions of the events other than end events, in stream order
RECURSIVE NodeEvents(_, _)
NodeEvents(ev, i) ==
  IF i > Len(ev) THEN <<>>
  ELSE (IF IsOkType(ev, i, "End") THEN <<>> ELSE <<i>>) \o NodeEvents(ev, i + 1)

\* the end event that closes the start event at position i by depth counting
MatchingEnd(ev, i) ==
  CHOOSE j \in (i + 1)..Len(ev) :
    /\ Balance(ev, j) = Balance(ev, i - 1)
    /\ \A k \in i..(j - 1) : Balance(ev, k) > Balance(ev, i - 1)

\* the node an event stands for: its kind, its payload, its flag
NodeOfEvent(item, event) ==
  IF event.type = "Start"
    THEN item.kind = "Element" /\ item.element = event.start /\ ~item.self_closing
  ELSE IF event.type = "Empty"
    THEN /\ item.kind = "Element" /\ item.element = event.start
         /\ item.self_closing /\ item.children = <<>>
  ELSE item = LeafItem(event.type, OtherOf(event.type, event.value))

SubtreeSize(item) ==
  IF item.kind = "Element" THEN Cardinality(PathsOf(item.children)) ELSE 0

\* ------------------------------------------------------------------------
\* C6: when the builder succeeds, the nodes of the tree listed in document
\* order are the events of the stream other than end events, in stream
\* order, one node per event; the node of a start event holds below it
\* exactly the nodes of the events between the start event and the end
\* event that closes it.
\* ------------------------------------------------------------------------
C6_TreeFollowsTokens ==
  result.tag = "Ok" =>
    LET nodes == PreOrder(result.items, 1)
        at == NodeEvents(Events, 1)
    IN /\ Len(nodes) = Len(at)
       /\ \A r \in 1..Len(nodes) :
            LET item == ItemAt(result.items, nodes[r])
                event == Events[at[r]].event
            IN /\ NodeOfEvent(item, event)
               /\ SubtreeSize(item) =
                    (IF event.type = "Start"
                       THEN Cardinality({ k \in (at[r] + 1)..(MatchingEnd(Events, at[r]) - 1) :
                                            ~IsOkType(Events, k, "End") })
                       ELSE 0)

\* an element nested in an element, next to a text, has been built
C6_Witness ==
  /\ result.tag = "Ok"
  /\ \E p \in ElementPaths(result.items) :
       /\ Len(p) = 2
       /\ \E q \in PathsOf(result.items) :
            Len(q) = 2 /\ q[1] = p[1] /\ ItemAt(result.items, q).kind = "Text"

\* ------------------------------------------------------------------------
\* C7: for n >= 1, get_items_at_depth(n) yields exactly the items n element
\* boundaries below the queried element, each once, in document order.
\* ------------------------------------------------------------------------
C7_ItemsAtDepth ==
  (query.op = "get_items_at_depth" /\ query.depth >= 1) =>
    /\ ~query.res.panic
    /\ InDocOrder(query.res.refs)
    /\ { query.res.refs[i] : i \in 1..Len(query.res.refs) }
         = { p \in PathsOf(ItemAt(items, query.at).children) : Len(p) = query.depth }

\* depth 2 asked of an element that has a leaf child, which contributes
\* nothing, and at least two grandchildren
C7_Witness ==
  /\ query.op = "get_items_at_depth"
  /\ query.depth = 2
  /\ Len(query.res.refs) >= 2
  /\ \E i \in 1..Len(ItemAt(items, query.at).children) :
       ItemAt(items, query.at).children[i].kind # "Element"

\* ------------------------------------------------------------------------
\* C8: get_items_at_depth panics if and only if the requested depth is 0.
\* ------------------------------------------------------------------------
C8_PanicIffZero ==
  query.op = "get_items_at_depth" => (query.res.panic <=> query.depth = 0)

\* depth 0 asked of an element that has children
C8_Witness ==
  /\ query.op = "get_items_at_depth"
  /\ query.depth = 0
  /\ query.res.panic
  /\ ItemAt(items, query.at).children # <<>>

\* ------------------------------------------------------------------------
\* Descendant search
\* ------------------------------------------------------------------------
\* the tag names of the yielded items
YieldedNames(refs, self) ==
  [i \in 1..Len(refs) |-> ItemAt(self.children, refs[i]).element.name]

IsSiblingsQuery ==
  /\ query.op = "find_descendants"
  /\ Events = ExampleSiblings
  /\ query.at = <<1>>
  /\ query.predicate = "IsElement"

\* ------------------------------------------------------------------------
\* C9 (as claimed): on <a><b/><c/><d><e/></d></a>, find_descendants on a
\* with 'item is an Element' yields exactly b, c, e.
\* ------------------------------------------------------------------------
C9_YieldsBCE ==
  IsSiblingsQuery =>
    YieldedNames(query.refs, ItemAt(items, query.at)) = <<NameB, NameC, NameE>>

\* C9 (amended): on <a><b/><c/><d><e/></d></a>, find_descendants on a with
\* 'item is an Element' yields exactly b, c, d, e, in that order.
C9_YieldsBCDE ==
  IsSiblingsQuery =>
    YieldedNames(query.refs, ItemAt(items, query.at)) = <<NameB, NameC, NameD, NameE>>

\* the search for all elements has run on a of the example
C9_Witness == IsSiblingsQuery /\ Len(query.refs) > 0

\* ------------------------------------------------------------------------
\* C10 (as claimed): find_descendants yields the matching descendants in
\* document order.
\* ------------------------------------------------------------------------
C10_DocumentOrder ==
  query.op = "find_descendants" => InDocOrder(query.refs)

\* some child element holds a match and a later sibling of it matches
HasLateSibling(self, predicate) ==
  \E e \in {<<>>} \cup ElementPaths(self.children) :
    LET children == IF e = <<>> THEN self.children
                    ELSE ItemAt(self.children, e).children
    IN \E i, j \in 1..Len(children) :
         /\ i < j
         /\ children[i].kind = "Element"
         /\ \E p \in PathsOf(children[i].children) :
              Holds(predicate, ItemAt(children[i].children, p))
         /\ Holds(predicate, children[j])

\* C10 (amended): find_descendants yields matching children of one parent
\* left to right and a matching ancestor before its matching descendants;
\* the whole sequence is in document order exactly when no match lies
\* inside an element that has a matching later sibling.
C10_OrderAmongKin ==
  query.op = "find_descendants" =>
    /\ \A i, j \in 1..Len(query.refs) :
         i < j =>
           LET p == query.refs[i]
               q == query.refs[j]
           IN /\ ~IsProperPrefix(q, p)
              /\ (Len(p) = Len(q)
                  /\ SubSeq(p, 1, Len(p) - 1) = SubSeq(q, 1, Len(q) - 1))
                 => p[Len(p)] < q[Len(q)]
    /\ InDocOrder(query.refs)
         <=> ~HasLateSibling(ItemAt(items, query.at), query.predicate)

\* a match inside an earlier sibling was yielded after a later sibling, and
\* an ancestor and its descendant both matched
C10_Witness ==
  /\ query.op = "find_descendants"
  /\ ~InDocOrder(query.refs)
  /\ \E i, j \in 1..Len(query.refs) : IsProperPrefix(query.refs[i], query.refs[j])

\* ------------------------------------------------------------------------
\* C11: find_descendants yields all matching direct children, left to
\* right, before any deeper match; the deeper matches follow grouped by the
\* child element that holds them, the child elements taken left to right,
\* each group ordered by the same rule.
\* ------------------------------------------------------------------------
RECURSIVE LevelBefore(_, _)
LevelBefore(p, q) ==
  IF Len(p) = 1 THEN Len(q) > 1 \/ p[1] < q[1]
  ELSE IF Len(q) = 1 THEN FALSE
  ELSE \/ p[1] < q[1]
       \/ p[1] = q[1] /\ LevelBefore(Tail(p), Tail(q))

C11_ChildrenThenGroups ==
  query.op = "find_descendants" =>
    \A i, j \in 1..Len(query.refs) :
      i < j => LevelBefore(query.refs[i], query.refs[j])

\* two direct matches, the first of them an element that holds a match, so
\* that the match inside it is yielded after its later sibling
C11_Witness ==
  /\ query.op = "find_descendants"
  /\ \E i, j, k \in 1..Len(query.refs) :
       /\ i < j /\ j < k
       /\ Len(query.refs[i]) = 1
       /\ Len(query.refs[j]) = 1
       /\ IsProperPrefix(query.refs[i], query.refs[k])

\* ------------------------------------------------------------------------
\* C12: find_descendants yields exactly the descendants, of any kind and at
\* any depth, for which the predicate holds, each of them once; it yields
\* no other item and not the queried element.
\* ------------------------------------------------------------------------
C12_ExactlyTheMatches ==
  query.op = "find_descendants" =>
    LET self == ItemAt(items, query.at) IN
    /\ { query.refs[i] : i \in 1..Len(query.refs) }
         = { p \in PathsOf(self.children) :
               Holds(query.predicate, ItemAt(self.children, p)) }
    /\ \A i, j \in 1..Len(query.refs) : i # j => query.refs[i] # query.refs[j]

\* a search for texts that finds one among the children and one deeper,
\* next to elements that do not match
C12_Witness ==
  /\ query.op = "find_descendants"
  /\ query.predicate = "IsText"
  /\ \E i, j \in 1..Len(query.refs) :
       Len(query.refs[i]) = 1 /\ Len(query.refs[j]) >= 2
\* ------------------------------------------------------------------------
\* Text content
\* ------------------------------------------------------------------------
RECURSIVE TextAlong(_, _, _)
\* the decodable payloads of the text leaves met along a sequence of paths
TextAlong(its, paths, i) ==
  IF i > Len(paths) THEN <<>>
  ELSE LET item == ItemAt(its, paths[i]) IN
       (IF item.kind = "Text" /\ IsUtf8From(item.other.value, 1)
          THEN item.other.value ELSE <<>>)
       \o TextAlong(its, paths, i + 1)

\* C13: get_text_content returns the concatenation, in document order, of the
\* payloads of all text leaves at any depth below the element; leaves of other
\* kinds and text that does not decode contribute nothing, and an element
\* without text leaves gives the empty string
C13_TextContent ==
  query.op = "get_text_content" =>
    LET children == ItemAt(items, query.at).children IN
    query.res = TextAlong(children, PreOrder(children, 1), 1)

\* <a>t<b>u</b><!--t--></a> queried at a: "tu"
C13_Witness ==
  /\ query.op = "get_text_content"
  /\ query.res = TextT \o TextU
  /\ LET children == ItemAt(items, query.at).children IN
     /\ \E i, j \in 1..Len(children) :
          /\ i < j
          /\ children[i].kind = "Text"
          /\ children[j].kind = "Element"
          /\ \E k \in 1..Len(children[j].children) :
               children[j].children[k].kind = "Text"
     /\ \E i \in 1..Len(children) : children[i].kind = "Comment"

\* a text leaf that does not decode is passed over
C13_WitnessUndecodable ==
  /\ query.op = "get_text_content"
  /\ LET children == ItemAt(items, query.at).children IN
     \E i \in 1..Len(children) :
       children[i].kind = "Text" /\ ~IsUtf8From(children[i].other.value, 1)

\* ------------------------------------------------------------------------
\* Attributes
\* ------------------------------------------------------------------------
\* the value a list of key="value" pairs gives a key in its last occurrence
LastValue(attrs, key) ==
  LET last == CHOOSE i \in 1..Len(attrs) :
                /\ attrs[i][1] = key
                /\ \A j \in (i + 1)..Len(attrs) : attrs[j][1] # key
  IN attrs[last][2]

KeysOf(attrs) == { attrs[i][1] : i \in 1..Len(attrs) }

\* C14: get_attributes maps every key of the tag to the value of the key's
\* last occurrence, one entry per key (<a x="1" x="2"/> gives x -> "2")
C14_LastOccurrenceWins ==
  query.op = "get_attributes" =>
    LET attrs == ItemAt(items, query.at).element.attrs IN
    /\ DOMAIN query.res = KeysOf(attrs)
    /\ \A key \in KeysOf(attrs) : query.res[key] = LastValue(attrs, key)

\* C15: after set_attribute(k, v) the element's attribute map is the map it
\* had before with k -> v added or replaced
C15_MapUpdated ==
  query.op = "set_attribute" =>
    get_attributes(ItemAt(items, query.at))
      = Insert(get_attributes(ItemAt(query.before, query.at)),
               query.key, query.value)

RECURSIVE EventsBefore(_, _)
\* how many events the serialization of a sequence of items writes before the
\* first event of the item at a path
EventsBefore(its, path) ==
  LET i == path[1]
      earlier == ChildEvents(SubSeq(its, 1, i - 1), 1)
  IN Len(earlier)
     + (IF Len(path) = 1 THEN 0
        ELSE 1 + EventsBefore(its[i].children, Tail(path)))

\* C16: set_attribute changes the attribute list of the element it is called
\* on and nothing else in the tree: name, children and flag of that element
\* and every other item stay as they were, and the serialization differs at
\* most in the start or empty token of that element
C16_OnlyThatTag ==
  query.op = "set_attribute" =>
    LET old == ItemAt(query.before, query.at)
        new == ItemAt(items, query.at)
        was == items_to_string(query.before)
        now == items_to_string(items)
        tag == EventsBefore(items, query.at) + 1
    IN /\ items = ReplaceAt(query.before, query.at,
                            [old EXCEPT !.element.attrs = new.element.attrs])
       /\ Len(now) = Len(was)
       /\ \A i \in 1..Len(now) : i # tag => now[i] = was[i]
       /\ now[tag].type \in {"Start", "Empty"}
       /\ now[tag].type = was[tag].type
       /\ now[tag].start.name = was[tag].start.name

\* <c></c><a>t</a><d/> after set_attribute on a: the tag of a changed, with a
\* sibling before it, a child inside it and a sibling after it
C16_Witness ==
  /\ query.op = "set_attribute"
  /\ query.at = <<2>>
  /\ Len(items) = 3
  /\ ItemAt(items, <<2>>).children # <<>>
  /\ ItemAt(items, <<2>>).element.attrs # ItemAt(query.before, <<2>>).element.attrs
  /\ items_to_string(items) # items_to_string(query.before)

\* ------------------------------------------------------------------------
\* Names and the shape of a serialized element
\* ------------------------------------------------------------------------
\* a written event sequence, read as a token source would yield it
AsRead(events) == [i \in 1..Len(events) |-> OkEv(events[i])]

\* C17: after set_name(n) get_name returns n, the element's serialized start
\* and end tokens (or its empty token) both carry n, and attributes, children
\* and flag are as before; no serialization has a start token whose end token
\* carries another name
C17_Renamed ==
  query.op = "set_name" =>
    LET old == ItemAt(query.before, query.at)
        new == ItemAt(items, query.at)
        events == element_get_all_events(new)
    IN /\ get_name(new) = [ok |-> TRUE, val |-> query.name]
       /\ items = ReplaceAt(query.before, query.at,
                            [old EXCEPT !.element.name = query.name])
       /\ new.element.attrs = old.element.attrs
       /\ new.children = old.children
       /\ new.self_closing = old.self_closing
       /\ events[1].start.name = query.name
       /\ \/ Len(events) = 1 /\ events[1].type = "Empty"
          \/ /\ events[1].type = "Start"
             /\ events[Len(events)] = EndEv(query.name)
       /\ WellFormed(AsRead(events))
       /\ WellFormed(AsRead(items_to_string(items)))

\* an element with an attribute and a child given another name
C17_Witness ==
  /\ query.op = "set_name"
  /\ LET old == ItemAt(query.before, query.at)
         new == ItemAt(items, query.at)
     IN /\ old.element.name # query.name
        /\ new.element.attrs # <<>>
        /\ new.children # <<>>
        /\ Len(element_get_all_events(new)) >= 3

\* an element written as one empty token given another name
C17_WitnessEmpty ==
  /\ query.op = "set_name"
  /\ LET old == ItemAt(query.before, query.at)
         new == ItemAt(items, query.at)
     IN /\ old.element.name # query.name
        /\ element_get_all_events(new) = << EmptyEv(query.name) >>

RECURSIVE Flatten(_)
\* the concatenation of a sequence of sequences
Flatten(seqs) == IF seqs = <<>> THEN <<>> ELSE Head(seqs) \o Flatten(Tail(seqs))

\* C18: an element is serialized as one empty token exactly when its flag is
\* set and it has no children; otherwise as its start token, the serialized
\* children in order and its end token, whatever the flag says
C18_EmptyIffFlaggedAndChildless ==
  (query.op = "to_string_safe" /\ query.res.ok) =>
    LET self == ItemAt(items, query.at)
        events == query.res.val
        inner == Flatten([i \in 1..Len(self.children) |->
                            item_get_all_events(self.children[i])])
    IN /\ (Len(events) = 1 /\ events[1].type = "Empty")
            <=> (self.self_closing /\ self.children = <<>>)
       /\ (self.self_closing /\ self.children = <<>>)
            => events = << [type |-> "Empty", start |-> self.element] >>
       /\ ~(self.self_closing /\ self.children = <<>>)
            => events = << [type |-> "Start", start |-> self.element] >>
                        \o inner \o << EndEv(self.element.name) >>

\* an element whose flag is set and which has a child, written as start tag,
\* child, end tag
C18_Witness ==
  /\ query.op = "to_string_safe"
  /\ query.res.ok
  /\ LET self == ItemAt(items, query.at) IN
     /\ self.self_closing
     /\ self.children # <<>>
     /\ query.res.val[1].type = "Start"

\* a childless element whose flag is set, written as one empty token
C18_WitnessEmpty ==
  /\ query.op = "to_string_safe"
  /\ query.res.ok
  /\ ItemAt(items, query.at).self_closing
  /\ query.res.val[1].type = "Empty"

\* a childless element whose flag is not set, written as start tag, end tag
C18_WitnessPair ==
  /\ query.op = "to_string_safe"
  /\ query.res.ok
  /\ ~ItemAt(items, query.at).self_closing
  /\ ItemAt(items, query.at).children = <<>>
  /\ Len(query.res.val) = 2

\* every element whose flag is set is childless
FlaggedAreChildless(its) ==
  \A p \in ElementPaths(its) :
    ItemAt(its, p).self_closing => ItemAt(its, p).children = <<>>

\* C19 as stated: in every reachable state of a tree, an element whose
\* self_closing flag is set has no children
C19_FlaggedIsChildless == phase = "parsed" => FlaggedAreChildless(items)

\* C19: a flagged element is childless in every parsed tree and in every
\* newly built item; set_attribute, set_name, popping a child, pushing a top
\* level item and pushing a child into an unflagged element keep it so;
\* pushing a child into a flagged element leaves the flag set, so that the
\* element is then flagged and has a child
C19_FlagSurvivesPush ==
  /\ result.tag = "Ok" => FlaggedAreChildless(result.items)
  /\ query.op \in {"push_item", "push_child"} => FlaggedAreChildless(<<query.item>>)
  /\ ( /\ query.op \in {"set_attribute", "set_name", "pop_child", "push_item"}
       /\ FlaggedAreChildless(query.before) )
       => FlaggedAreChildless(items)
  /\ ( /\ query.op = "push_child"
       /\ FlaggedAreChildless(query.before)
       /\ ~ItemAt(query.before, query.at).self_closing )
       => FlaggedAreChildless(items)
  /\ ( /\ query.op = "push_child"
       /\ ItemAt(query.before, query.at).self_closing )
       => /\ ItemAt(items, query.at).self_closing
          /\ ItemAt(items, query.at).children # <<>>

\* a child pushed into the element parsed from <a/>
C19_Witness ==
  /\ query.op = "push_child"
  /\ result.tag = "Ok"
  /\ ItemAt(query.before, query.at).self_closing
  /\ ~FlaggedAreChildless(items)

\* a flagged childless element kept so by set_name
C19_WitnessKept ==
  /\ query.op = "set_name"
  /\ ItemAt(items, query.at).self_closing
  /\ FlaggedAreChildless(items)

\* ------------------------------------------------------------------------
\* Serializing a sequence of items
\* ------------------------------------------------------------------------
\* the bytes a node of a tree puts into the output are UTF-8
NodeIsUtf8(item) ==
  IF item.kind = "Element"
    THEN /\ IsUtf8From(item.element.name, 1)
         /\ \A k \in 1..Len(item.element.attrs) :
              /\ IsUtf8From(item.element.attrs[k][1], 1)
              /\ IsUtf8From(item.element.attrs[k][2], 1)
    ELSE IsUtf8From(item.other.value, 1)

\* the serialization of an item succeeds
Serializes(item) == \A p \in PathsOf(<<item>>) : NodeIsUtf8(ItemAt(<<item>>, p))

\* C20: items_to_string always returns a string: the concatenation, in order,
\* of the serialized forms of the top level items that serialize; an item
\* that fails contributes nothing and does not keep the items before and
\* after it from being written, and when none fails the result is the
\* concatenation of every item's to_string
C20_BestEffort ==
  text.tag = "Some" =>
       /\ text.val = Flatten([i \in 1..Len(items) |->
                        IF Serializes(items[i])
                          THEN item_get_all_events(items[i]) ELSE <<>>])
       /\ \A i \in 1..Len(items) :
            item_to_string_safe(items[i]).ok <=> Serializes(items[i])
       /\ (\A i \in 1..Len(items) : item_to_string_safe(items[i]).ok) =>
            text.val = Flatten([i \in 1..Len(items) |->
                                  item_to_string_safe(items[i]).val])

\* an item that serializes, then an element that does not because a text
\* inside it is not UTF-8: the output is the first item alone
C20_Witness ==
  /\ text.tag = "Some"
  /\ Len(items) = 2
  /\ Serializes(items[1])
  /\ items[2].kind = "Element"
  /\ ~Serializes(items[2])
  /\ text.val = item_get_all_events(items[1])
  /\ text.val # <<>>

\* a text that does not decode, then an item that serializes: the output is
\* the second item alone
C20_WitnessAfter ==
  /\ text.tag = "Some"
  /\ Len(items) = 2
  /\ ~Serializes(items[1])
  /\ Serializes(items[2])
  /\ text.val = item_get_all_events(items[2])

\* ------------------------------------------------------------------------
\* Looking up one attribute
\* ------------------------------------------------------------------------
\* the positions of the entries of a start tag that carry a key
\* the key="value" entries of a start tag that carry a key
Hits(start, key) ==
  { i \in 1..Len(start.attrs) :
      ~Malformed(start.attrs[i]) /\ start.attrs[i][1] = key }

FirstHit(start, key) ==
  CHOOSE i \in Hits(start, key) : \A j \in Hits(start, key) : i <= j

\* what C21 says of the result of one lookup
LookupAsStated(start, key, res) ==
  /\ res = OkNone <=> Hits(start, key) = {}
  /\ Hits(start, key) # {} =>
       LET value == start.attrs[FirstHit(start, key)][2] IN
       /\ IsUtf8From(value, 1) => res = OkSome(value)
       /\ ~IsUtf8From(value, 1) => res = ErrResult(NonDecodable)

\* the entries the walk of a lookup passes: those up to the first entry that
\* carries the key, all of them when none does
Walked(start, key) ==
  IF Hits(start, key) = {} THEN 1..Len(start.attrs)
  ELSE 1..FirstHit(start, key)

\* C21: get_attribute(key) returns Ok(None) exactly when no entry of the
\* attribute list has the key, the decoded value of the matching entry when
\* it decodes, and a decode error when it does not; the element is left as
\* it was
C21_GetAttribute ==
  /\ [](query.op \in {"get_attribute", "empty_get_attribute"} =>
          LookupAsStated(ItemAt(items, query.at).element, query.key, query.res))
  /\ [][query'.op \in {"get_attribute", "empty_get_attribute"} => items' = items]_vars

\* what the lookup does: it fails with InvalidAttr exactly when the walk
\* passes a key written without =, and is as C21 says otherwise; the element
\* is left as it was
C21_GetAttributeOrInvalidAttr ==
  /\ [](query.op \in {"get_attribute", "empty_get_attribute"} =>
          LET start == ItemAt(items, query.at).element IN
          IF \E i \in Walked(start, query.key) : Malformed(start.attrs[i])
            THEN query.res = ErrResult(InvalidAttr)
            ELSE LookupAsStated(start, query.key, query.res))
  /\ [][query'.op \in {"get_attribute", "empty_get_attribute"} => items' = items]_vars

\* <a x y="1"/>: the lookup of y fails although the entry is there
C21_WitnessInvalidAttr ==
  /\ query.op = "get_attribute"
  /\ query.key = KeyY
  /\ ItemAt(items, query.at).element.attrs = << <<KeyX, NoEq>>, <<KeyY, Value1>> >>
  /\ query.res = ErrResult(InvalidAttr)

\* a lookup of a key the tag does not have, beside other entries
C21_WitnessAbsent ==
  /\ query.op = "get_attribute"
  /\ query.res = OkNone
  /\ ItemAt(items, query.at).element.attrs # <<>>

\* a lookup that found a value
C21_WitnessFound ==
  /\ query.op = "empty_get_attribute"
  /\ query.res = OkSome(Value1)

\* ------------------------------------------------------------------------
\* Reading all attributes of a tag
\* ------------------------------------------------------------------------
\* the entries of a start tag that the attribute iterator hands out as Ok and
\* whose key and value both decode
Decodable(start) ==
  { i \in 1..Len(start.attrs) :
      /\ Attributes(start)[i].ok
      /\ IsUtf8From(start.attrs[i][1], 1)
      /\ IsUtf8From(start.attrs[i][2], 1) }

\* a map holds exactly the decodable entries of a start tag
HoldsDecodable(start, map) ==
  /\ DOMAIN map = { start.attrs[i][1] : i \in Decodable(start) }
  /\ \A i \in Decodable(start) : map[start.attrs[i][1]] = start.attrs[i][2]

RendersEmpty(item) ==
  item.kind = "Element" /\ item.self_closing /\ item.children = <<>>

RECURSIVE Width(_)
RECURSIVE SumWidths(_, _)
\* how many tokens a node stands for: one for a leaf and for an element
\* written as an empty token, two around the tokens of the children otherwise
Width(item) ==
  IF item.kind # "Element" \/ RendersEmpty(item) THEN 1
  ELSE 2 + SumWidths(item.children, Len(item.children))

SumWidths(its, n) == IF n = 0 THEN 0 ELSE Width(its[n]) + SumWidths(its, n - 1)

RECURSIVE FirstToken(_, _)
\* the position of the first token of the node at a path
FirstToken(its, path) ==
  SumWidths(its, path[1] - 1)
  + (IF Len(path) = 1 THEN 1
     ELSE 1 + FirstToken(its[path[1]].children, Tail(path)))

\* the shape of the serialized token sequence: every leaf stands as one token
\* carrying its payload, of the kind of the item itself or of the kind of the
\* payload the item wraps; every element not written as an empty token stands
\* as a start token, then the tokens of its children in child order, then an
\* end token of the same name; so there are (leaves) + (elements written
\* empty) + 2 * (other elements) tokens
TokenShape(of_item) ==
    LET ev == text.val
        leaves == { p \in PathsOf(items) : ItemAt(items, p).kind # "Element" }
        empties == { p \in PathsOf(items) : RendersEmpty(ItemAt(items, p)) }
        others == (PathsOf(items) \ leaves) \ empties
    IN /\ Len(ev) = Cardinality(leaves) + Cardinality(empties)
                      + 2 * Cardinality(others)
       /\ \A p \in leaves :
            LET item == ItemAt(items, p) IN
            ev[FirstToken(items, p)]
              = LeafEv(IF of_item THEN item.kind ELSE item.other.kind,
                       item.other.value)
       /\ \A p \in empties :
            ev[FirstToken(items, p)]
              = [type |-> "Empty", start |-> ItemAt(items, p).element]
       /\ \A p \in others :
            LET item == ItemAt(items, p)
                first == FirstToken(items, p)
                last == first + Width(item) - 1
            IN /\ ev[first] = [type |-> "Start", start |-> item.element]
               /\ ev[last] = EndEv(ev[first].start.name)
               /\ \A k \in 1..Len(item.children) :
                    /\ first < FirstToken(items, p \o <<k>>)
                    /\ FirstToken(items, p \o <<k>>)
                         + Width(item.children[k]) - 1 < last
                    /\ k > 1 =>
                         FirstToken(items, p \o <<k>>)
                           = FirstToken(items, p \o <<k - 1>>)
                             + Width(item.children[k - 1])

\* C23: in the serialized token sequence each leaf item stands as one token
\* of the item's own kind carrying its payload, each element not written as
\* an empty token as start token, children's tokens, end token of the same
\* name, and the count of tokens is as the shape gives it
C23_TokenShape == text.tag = "Some" => TokenShape(TRUE)

\* the same with the kind of a leaf's token taken from the payload
C23_TokenShapeOfPayload == text.tag = "Some" => TokenShape(FALSE)

\* a serialized tree with a leaf inside an element, an element written as an
\* empty token and a flagged element written with start and end token
C23_Witness ==
  /\ text.tag = "Some"
  /\ \E p \in PathsOf(items) : Len(p) = 2 /\ ItemAt(items, p).kind # "Element"
  /\ \E p \in PathsOf(items) : RendersEmpty(ItemAt(items, p))
  /\ \E p \in ElementPaths(items) :
       ItemAt(items, p).self_closing /\ ItemAt(items, p).children # <<>>

\* ------------------------------------------------------------------------
\* Building a tree again from its own tokens
\* ------------------------------------------------------------------------
RECURSIVE Reflagged(_)
\* a sequence of items with the flag of every element set exactly where the
\* element is written as an empty token
Reflagged(its) ==
  [i \in 1..Len(its) |->
     IF its[i].kind # "Element" THEN its[i]
     ELSE ElementItem(its[i].element, Reflagged(its[i].children),
                      RendersEmpty(its[i]))]

\* every leaf is wrapped as the kind of its payload
LeavesMatch(its) ==
  \A p \in PathsOf(its) :
    ItemAt(its, p).kind # "Element" => ItemAt(its, p).kind = ItemAt(its, p).other.kind

\* C28: the serialized tokens of every tree are well formed and the builder
\* accepts them; the tree it builds is the serialized tree with every
\* element's flag set exactly where the element was written as an empty token
C28_RebuildEqualsTree ==
  query.op = "rebuild" =>
    /\ WellFormed(AsRead(query.events))
    /\ query.res = OkItems(Reflagged(items))

\* the same for the trees whose leaves are wrapped as the kind of their payload
C28_RebuildMatchingLeaves ==
  query.op = "rebuild" =>
    /\ WellFormed(AsRead(query.events))
    /\ query.res.tag = "Ok"
    /\ LeavesMatch(items) => query.res = OkItems(Reflagged(items))
    /\ (LeavesMatch(items) /\ FlaggedAreChildless(items)) => query.res.items = items

\* ------------------------------------------------------------------------
\* One attribute looked up, and the map of all attributes
\* ------------------------------------------------------------------------
\* C27 as stated: get_attribute(key) returns v exactly when get_attributes()
\* maps key to v, and absent exactly when the map has no such key
C27_LookupAgreesWithMap ==
  query.op = "get_attribute" =>
    LET map == get_attributes(ItemAt(items, query.at)) IN
    /\ query.key \in DOMAIN map => query.res = OkSome(map[query.key])
    /\ query.key \notin DOMAIN map => query.res = OkNone

\* on a tag all of whose entries are written key="value" the two agree, also
\* for a key the tag carries more than once
C27_AgreeOnWellFormedTags ==
  query.op = "get_attribute" =>
    LET start == ItemAt(items, query.at).element
        map == get_attributes(ItemAt(items, query.at))
    IN (\A i \in 1..Len(start.attrs) : ~Malformed(start.attrs[i])) =>
         /\ query.key \in DOMAIN map => query.res = OkSome(map[query.key])
         /\ query.key \notin DOMAIN map => query.res = OkNone

\* x="1" x="2" looked up: both give "1"
C27_Witness ==
  /\ query.op = "get_attribute"
  /\ query.key = KeyX
  /\ ItemAt(items, query.at).element.attrs = << <<KeyX, Value1>>, <<KeyX, Value2>> >>
  /\ query.res = OkSome(Value1)

\* ------------------------------------------------------------------------
\* The stored attribute list after set_attribute
\* ------------------------------------------------------------------------
\* the stored list holds each key once, every entry decodes, and the entries
\* are those of the map get_attributes returns
StoredIsCollapsed(self) ==
  LET attrs == self.element.attrs IN
  /\ \A i, j \in 1..Len(attrs) : i # j => attrs[i][1] # attrs[j][1]
  /\ Decodable(self.element) = 1..Len(attrs)
  /\ HoldsDecodable(self.element, get_attributes(self))

\* the same call made once more
SetAgain(self, key, value) ==
  { set_attribute(self, key, value, order) :
      order \in IterOrders(Insert(get_attributes(self), key, value)) }

\* C29: after set_attribute the stored attribute list holds each key at most
\* once and only the entries of the collapsed map, and the same call made a
\* second time leaves the map get_attributes returns unchanged
C29_CollapsedAndIdempotent ==
  query.op = "set_attribute" =>
    LET self == ItemAt(items, query.at) IN
    /\ StoredIsCollapsed(self)
    /\ \A again \in SetAgain(self, query.key, query.value) :
         get_attributes(again) = get_attributes(self)

\* the part of C29 about the stored list
C29_StoredCollapsed ==
  query.op = "set_attribute" => StoredIsCollapsed(ItemAt(items, query.at))

(***************************************************************************)
(* End of stream and the builder                                           *)
(***************************************************************************)

NoEof(ev) == \A i \in 1..Len(ev) : ~IsOkType(ev, i, "Eof")

\* the sequences the calls of parse_events work on: the one of the top-level
\* call and the ones handed to the recursive calls
Worked == {Events} \cup { call.sub_events : call \in CallsOf(Events) }

\* C24: the token source ends at end of stream without handing the Eof token
\* on, no sub-sequence collected for a recursive call contains it, and so the
\* walk never reaches its Eof branch
C24_EofNeverReachesBuilder ==
  /\ \A ev \in Worked : NoEof(ev)
  /\ phase # "init" => result.tag # "Panic"

\* a stream whose end is met while an element is open, after an element with
\* collected content was built
C24_Witness ==
  /\ phase = "failed"
  /\ result.tag = "Err" /\ result.error.type = "IllFormed"
  /\ result.error.variant = "MissingEndTag"
  /\ \E call \in CallsOf(Events) : call.sub_events # <<>>
  /\ ~NoEof(reader)

(***************************************************************************)
(* Termination of the walk                                                 *)
(***************************************************************************)

StrictlyIncreasing(seq) ==
  \A k \in 1..(Len(seq) - 1) : seq[k] < seq[k + 1]

\* every call takes each event of its sequence at most once, and takes no
\* position outside of it
TakesEachOnce(ev) ==
  LET taken == TakenFrom(ev, 1) IN
  /\ StrictlyIncreasing(taken)
  /\ \A k \in 1..Len(taken) : taken[k] \in 1..Len(ev)

\* C25: the walk ends for every finite token sequence: each call takes each
\* token at most once, each recursive call gets a sequence strictly shorter
\* than its caller's, and parse returns either a tree or an error
C25_WalkTerminates ==
  /\ [](\A ev \in Worked : TakesEachOnce(ev))
  /\ [](\A call \in CallsOf(Events) :
          Len(call.sub_events) < Len(call.caller))
  /\ [](phase # "init" => result.tag \in {"Ok", "Err"})
  /\ <>(phase # "init")

\* a walk that returned after a recursive call on a non-empty sub-sequence
C25_Witness ==
  /\ phase # "init"
  /\ \E call \in CallsOf(Events) :
       /\ call.sub_events # <<>>
       /\ Len(TakenFrom(call.caller, 1)) > Len(call.sub_events)

(***************************************************************************)
(* Structural errors come from the top-level call only                     *)
(***************************************************************************)

\* no end event without an earlier start event, and as many of one as of the
\* other
Balanced(ev) ==
  /\ \A k \in 1..Len(ev) : ev[k].ok /\ Balance(ev, k) >= 0
  /\ Balance(ev, Len(ev)) = 0

Structural(r) ==
  /\ r.tag = "Err" /\ r.error.type = "IllFormed"
  /\ r.error.variant \in {"MissingEndTag", "UnmatchedEndTag"}

\* C26: the sub-sequence collected between a start event and its
\* depth-matching end event is balanced, so no recursive call returns a
\* missing-end-tag or an unmatched-end-tag error
C26_OnlyTopLevelFailsStructurally ==
  \A call \in CallsOf(Events) :
    /\ Balanced(call.sub_events)
    /\ ~Structural(parse_events(call.sub_events))

\* a stream that fails structurally at the top level after a recursive call
\* on a sub-sequence with an element of its own
C26_Witness ==
  /\ phase = "failed" /\ Structural(result)
  /\ \E call \in CallsOf(Events) :
       \E k \in 1..Len(call.sub_events) : IsOkType(call.sub_events, k, "Start")

====
